---------------------------- MODULE Spec2Model ----------------------------
(***************************************************************************)
(* Model of napari_ome_zarr/_reader.py: the napari reader hook             *)
(* napari_get_reader, the closure f built by transform, its per-node       *)
(* transformation, and transform_properties.                               *)
(*                                                                         *)
(* Python values are pairs <<kind, val>>.  Dictionaries are                 *)
(* functions whose DOMAIN is the set of keys present.  A Python exception  *)
(* is a result record with ok = FALSE and the exception's name.            *)
(***************************************************************************)
EXTENDS Integers, Sequences, FiniteSets, TLC

----------------------------------------------------------------------------
(* Python values *)

Str(chars) == <<"str", chars>>
Num(n) == <<"num", n>>
Bool(b) == <<"bool", b>>
List(xs) == <<"list", xs>>
Dict(f) == <<"dict", f>>
Mat(rows) == <<"mat", rows>>
Vec(row) == <<"vec", row>>
Array(shape) == <<"array", shape>>
OrderedDict(items) == <<"odict", items>>
\* a realized vispy Colormap object, built from the value src
Cm(src) == <<"cm", src>>
None == <<"none", 0>>

Kind(v) == v[1]
Val(v) == v[2]
\* marks a key that is not in a dictionary (only used to enumerate inputs)
Absent == <<"absent", 0>>

Ok(v) == [ok |-> TRUE, res |-> v, err |-> "none"]
Raise(e) == [ok |-> FALSE, res |-> None, err |-> e]

EmptyDict == [x \in {} |-> None]

\* d[key] = v on a dictionary
DictSet(d, key, v) == [x \in DOMAIN d \cup {key} |-> IF x = key THEN v ELSE d[x]]

\* the sequence s without its 0-based position k
DropAt(s, k) == [i \in 1..(Len(s) - 1) |-> IF i <= k THEN s[i] ELSE s[i + 1]]

\* s[0-based position k] = v on a list
SetAt(s, k, v) == [i \in 1..Len(s) |-> IF i = k + 1 THEN v ELSE s[i]]

\* list.index(x): the 0-based position of the first occurrence of x
RECURSIVE IndexFrom(_, _, _)
IndexFrom(s, x, i) ==
    IF s[i] = x THEN i - 1 ELSE IndexFrom(s, x, i + 1)

IndexOf(s, x) == IndexFrom(s, x, 1)

Contains(s, x) == \E i \in 1..Len(s) : s[i] = x

----------------------------------------------------------------------------
(* Program constants *)

\* ome_zarr.data.CHANNEL_DIMENSION: the legacy position of the channel axis
CHANNEL_DIMENSION == 1

\* the length of dim_mask: the size of the affine matrix of a 5-D image
AffineSize == 6

\* the rank at which a label node gets its second dimension removed
LabelRank == 5

METADATA_KEYS ==
    <<"name", "visible", "contrast_limits", "colormap",
      "metadata", "affine", "blending">>

MetadataKeySet == {METADATA_KEYS[i] : i \in 1..Len(METADATA_KEYS)}

----------------------------------------------------------------------------
(* Python and library primitives used by transform *)

\* x[0]
Index0(x) ==
    CASE Kind(x) = "list" ->
           IF Len(Val(x)) > 0 THEN Ok(Val(x)[1]) ELSE Raise("IndexError")
      [] Kind(x) = "str" ->
           IF Len(Val(x)) > 0 THEN Ok(Str(<<Val(x)[1]>>)) ELSE Raise("IndexError")
      [] Kind(x) = "mat" ->
           IF Len(Val(x)) > 0 THEN Ok(Vec(Val(x)[1])) ELSE Raise("IndexError")
      [] Kind(x) = "dict" ->
           Raise("KeyError")
      [] OTHER -> Raise("TypeError")

\* s[mask] for a boolean mask as long as s
RECURSIVE MaskSelect(_, _)
MaskSelect(s, mask) ==
    IF s = <<>> THEN <<>>
    ELSE (IF Head(mask) THEN <<Head(s)>> ELSE <<>>)
            \o MaskSelect(Tail(s), Tail(mask))

\* dim_mask = [True] * 6; dim_mask[channel_axis] = False
DimMask(channel_axis) == [i \in 1..AffineSize |-> i /= channel_axis + 1]

\* affine[dim_mask, :][:, dim_mask], after dim_mask[channel_axis] = False
ReduceAffine_RowOnly(affine, channel_axis) ==
    IF channel_axis >= AffineSize THEN Raise("IndexError")
    ELSE IF Kind(affine) /= "mat" THEN Raise("TypeError")
    ELSE IF Len(Val(affine)) /= AffineSize THEN Raise("IndexError")
    ELSE Ok(Mat(MaskSelect(Val(affine), DimMask(channel_axis))))

ReduceAffine(affine, channel_axis) ==
    IF channel_axis >= AffineSize THEN Raise("IndexError")
    ELSE IF Kind(affine) /= "mat" THEN Raise("TypeError")
    ELSE IF Len(Val(affine)) /= AffineSize
            \/ \E i \in 1..Len(Val(affine)) : Len(Val(affine)[i]) /= AffineSize
         THEN Raise("IndexError")
    ELSE LET rows == MaskSelect(Val(affine), DimMask(channel_axis))
         IN  Ok(Mat([i \in 1..Len(rows) |->
                        MaskSelect(rows[i], DimMask(channel_axis))]))

\* d[:, 0, ...]
SliceChannel0(d) ==
    IF Len(Val(d)) < 2 THEN Raise("IndexError")
    ELSE IF Val(d)[2] < 1 THEN Raise("IndexError")
    ELSE Ok(Array(DropAt(Val(d), 1)))

\* [d[:, 0, ...] for d in data]
SliceAll(data) ==
    IF \E i \in 1..Len(Val(data)) : ~SliceChannel0(Val(data)[i]).ok
    THEN Raise("IndexError")
    ELSE Ok(List([i \in 1..Len(Val(data)) |-> SliceChannel0(Val(data)[i]).res]))

\* data is None or len(data) < 1, negated
HasData_NoneOnly(data) == Kind(data) /= "none"

HasData(data) == Kind(data) /= "none" /\ Len(Val(data)) >= 1

\* the channel_axis of an image node: Num(k), or None
DetectChannelAxis_Legacy(metadata, shape) ==
    IF "axes" \in DOMAIN metadata /\ Contains(Val(metadata["axes"]), Str(<<"c">>))
    THEN Ok(Num(IndexOf(Val(metadata["axes"]), Str(<<"c">>))))
    ELSE IF Len(shape) <= CHANNEL_DIMENSION THEN Raise("IndexError")
    ELSE IF shape[CHANNEL_DIMENSION + 1] > 1 THEN Ok(Num(CHANNEL_DIMENSION))
    ELSE Ok(None)

DetectChannelAxis(metadata, shape) ==
    IF "axes" \in DOMAIN metadata
    THEN IF Contains(Val(metadata["axes"]), Str(<<"c">>))
         THEN Ok(Num(IndexOf(Val(metadata["axes"]), Str(<<"c">>))))
         ELSE Ok(None)
    ELSE IF Len(shape) <= CHANNEL_DIMENSION THEN Raise("IndexError")
    ELSE IF shape[CHANNEL_DIMENSION + 1] > 1 THEN Ok(Num(CHANNEL_DIMENSION))
    ELSE Ok(None)

\* for x in METADATA_KEYS: if x in node.metadata: metadata[x] = node.metadata[x]
CopyKeys(node_metadata) ==
    [x \in MetadataKeySet \cap DOMAIN node_metadata |-> node_metadata[x]]

\* for x in METADATA_KEYS: if x in node.metadata:
\*     try: metadata[x] = node.metadata[x][0]
\*     except Exception: pass
CopyFirstItems(node_metadata) ==
    [x \in {y \in MetadataKeySet \cap DOMAIN node_metadata :
                Index0(node_metadata[y]).ok}
        |-> Index0(node_metadata[x]).res]

----------------------------------------------------------------------------
(* Colormap normalization *)

\* the names vispy.color.get_colormap knows, among those the inputs use
KnownColormaps == {Str(<<"r", "e", "d">>)}

\* a color: a list of 3 or 4 numbers
IsColor(x) ==
    /\ Kind(x) = "list"
    /\ Len(Val(x)) \in {3, 4}
    /\ \A i \in 1..Len(Val(x)) : Kind(Val(x)[i]) = "num"

\* raw color-stop data vispy's Colormap accepts: at least two colors
IsStops(x) ==
    /\ Kind(x) = "list"
    /\ Len(Val(x)) >= 2
    /\ \A i \in 1..Len(Val(x)) : IsColor(Val(x)[i])

\* vispy.color.get_colormap(name)
get_colormap(name) ==
    IF name \in KnownColormaps THEN Ok(Cm(name)) ELSE Raise("KeyError")

\* vispy.color.Colormap(cm)
Colormap(cm) ==
    IF IsStops(cm) THEN Ok(Cm(cm)) ELSE Raise("AssertionError")

\* not isinstance(cm, Colormap)
NotColormap_Always(cm) == TRUE

NotColormap(cm) == Kind(cm) /= "cm"

\* get_colormap(cm) if isinstance(cm, str) else Colormap(cm)
Realize(cm) == IF Kind(cm) = "str" THEN get_colormap(cm) ELSE Colormap(cm)

\* for idx, cm in enumerate(cms): if not isinstance(cm, Colormap): cms[idx] = ...
\* on a list xs, from 1-based position i on, n entries replaced so far.
\* val is the list as the loop leaves it, also when it raises.
RECURSIVE NormalizeFrom(_, _, _)
NormalizeFrom(xs, i, n) ==
    IF i > Len(xs) THEN [ok |-> TRUE, res |-> List(xs), err |-> "none", replaced |-> n]
    ELSE IF ~NotColormap(xs[i]) THEN NormalizeFrom(xs, i + 1, n)
    ELSE LET r == Realize(xs[i])
         IN  IF r.ok THEN NormalizeFrom(SetAt(xs, i - 1, r.res), i + 1, n + 1)
             ELSE [ok |-> FALSE, res |-> List(xs), err |-> r.err, replaced |-> n]

\* the loop of lines 148-150 on the object cms
NormalizeColormap(cms) ==
    CASE Kind(cms) = "list" -> NormalizeFrom(Val(cms), 1, 0)
      [] Kind(cms) = "str" ->
           \* a str yields its characters; none is a Colormap, and a str
           \* supports no item assignment
           IF Len(Val(cms)) = 0
           THEN [ok |-> TRUE, res |-> cms, err |-> "none", replaced |-> 0]
           ELSE [ok |-> FALSE, res |-> cms, replaced |-> 0,
                 err |-> IF get_colormap(Str(<<Val(cms)[1]>>)).ok
                         THEN "TypeError" ELSE "KeyError"]
      [] OTHER ->
           \* a Colormap object supports no item assignment, a number or
           \* None no iteration
           [ok |-> FALSE, res |-> cms, err |-> "TypeError", replaced |-> 0]

----------------------------------------------------------------------------
(* transform_properties *)

\* props_dict.get(key, None)
Get(d, key) == IF key \in DOMAIN d THEN d[key] ELSE None

\* the second loop of transform_properties, on the items from position i on
RECURSIVE FillColumns(_, _, _, _)
FillColumns(properties, keys, items, i) ==
    IF i > Len(items) THEN properties
    ELSE LET label_id == items[i].id
             props_dict == items[i].props
             withIndex == [properties EXCEPT !["index"] = Append(@, label_id)]
             filled == [key \in DOMAIN withIndex |->
                          IF key \in keys
                          THEN Append(withIndex[key], Get(props_dict, key))
                          ELSE withIndex[key]]
         IN  FillColumns(filled, keys, items, i + 1)

transform_properties(props) ==
    IF Kind(props) = "none" THEN None
    ELSE LET items == Val(props)
             keys == UNION {DOMAIN items[i].props : i \in 1..Len(items)}
             empty == [key \in keys \cup {"index"} |-> <<>>]
         IN  Dict(FillColumns(empty, keys, items, 1))

----------------------------------------------------------------------------
(* The body of the loop of f, for one node *)

\* the channel_axis a 5-D label node is given
LabelChannelAxis == 1

NoRecord == [data |-> None, metadata |-> EmptyDict, layer_type |-> "none"]

\* the outcome of lines 96-144: data, metadata and layer_type, or an
\* exception.  alias says which object of the node metadata["colormap"] is:
\* "whole" for node.metadata["colormap"], "first" for its element [0].
Built(data, metadata, layer_type, alias) ==
    [ok |-> TRUE, err |-> "none", data |-> data, metadata |-> metadata,
     layer_type |-> layer_type, alias |-> alias]

Failed(e) ==
    [ok |-> FALSE, err |-> e, data |-> None, metadata |-> EmptyDict,
     layer_type |-> "none", alias |-> "none"]

\* lines 100-114
LabelPath(node, shape) ==
    LET metadata == CopyKeys(node.metadata)
    IN  IF Len(shape) = LabelRank
        THEN IF "affine" \notin DOMAIN metadata THEN Failed("KeyError")
             ELSE LET a == ReduceAffine(metadata["affine"], LabelChannelAxis)
                      d == SliceAll(node.data)
                  IN  IF ~a.ok THEN Failed(a.err)
                      ELSE IF ~d.ok THEN Failed(d.err)
                      ELSE Built(d.res, DictSet(metadata, "affine", a.res),
                                 "labels", "whole")
        ELSE Built(node.data, metadata, "labels", "whole")

\* lines 126-136
MultiChannel(node, channel_axis) ==
    LET metadata == DictSet(CopyKeys(node.metadata), "channel_axis",
                            Num(channel_axis))
    IN  IF "affine" \in DOMAIN metadata /\ Kind(metadata["affine"]) /= "none"
        THEN LET a == ReduceAffine(metadata["affine"], channel_axis)
             IN  IF ~a.ok THEN Failed(a.err)
                 ELSE Built(node.data, DictSet(metadata, "affine", a.res),
                            "image", "whole")
        ELSE Built(node.data, metadata, "image", "whole")

\* lines 116-144
ImagePath(node, shape) ==
    LET c == DetectChannelAxis(node.metadata, shape)
    IN  IF ~c.ok THEN Failed(c.err)
        ELSE IF Kind(c.res) = "num" THEN MultiChannel(node, Val(c.res))
        ELSE Built(node.data, CopyFirstItems(node.metadata), "image", "first")

\* the node's metadata after the loop of lines 147-150 has left the object
\* cms, which the node holds too, as the list after
NodeAfterNormalize(node, alias, after) ==
    IF alias = "whole"
    THEN [node EXCEPT !.metadata = DictSet(@, "colormap", after)]
    ELSE IF Kind(node.metadata["colormap"]) = "list"
    THEN [node EXCEPT !.metadata =
            DictSet(@, "colormap", List(SetAt(Val(@["colormap"]), 0, after)))]
    ELSE node

\* lines 146-158, after lines 96-144 built b
Finish(node, b) ==
    LET hasCms == "colormap" \in DOMAIN b.metadata
        norm == IF hasCms THEN NormalizeColormap(b.metadata["colormap"])
                ELSE NormalizeColormap(List(<<>>))
        metadata1 == IF hasCms THEN DictSet(b.metadata, "colormap", norm.res)
                     ELSE b.metadata
        nodeAfter == IF hasCms /\ Kind(b.metadata["colormap"]) = "list"
                     THEN NodeAfterNormalize(node, b.alias, norm.res)
                     ELSE node
        properties == transform_properties(Get(node.metadata, "properties"))
        metadata2 == IF Kind(properties) /= "none"
                     THEN DictSet(metadata1, "properties", properties)
                     ELSE metadata1
    IN  IF ~norm.ok
        THEN [status |-> "raise", err |-> norm.err, rec |-> NoRecord,
              node |-> nodeAfter]
        ELSE [status |-> "ok", err |-> "none", node |-> nodeAfter,
              rec |-> [data |-> b.data, metadata |-> metadata2,
                       layer_type |-> b.layer_type]]

\* lines 90-158: what one iteration of the loop does with node
TransformNode(node) ==
    IF ~HasData(node.data)
    THEN [status |-> "skip", err |-> "none", rec |-> NoRecord, node |-> node]
    ELSE IF Len(Val(node.data)) = 0
    THEN [status |-> "raise", err |-> "IndexError", rec |-> NoRecord,
          node |-> node]
    ELSE LET shape == Val(Val(node.data)[1])
             b == IF node.label THEN LabelPath(node, shape)
                  ELSE ImagePath(node, shape)
         IN  IF ~b.ok
             THEN [status |-> "raise", err |-> b.err, rec |-> NoRecord,
                   node |-> node]
             ELSE Finish(node, b)

----------------------------------------------------------------------------
(* Bounds and inputs *)

\* the longest upstream node sequence
MaxNodes == 2

\* the longest list of paths the host passes
MaxPaths == 2

\* how often the host invokes the returned reader function
MaxInvocations == 2

\* the most objects of a properties table
MaxObjs == 2

PathNames == {"p1", "p2", "bad"}

\* the paths ome_zarr.io.parse_url finds an OME-Zarr hierarchy at
ValidPaths == {"p1", "p2"}

\* ome_zarr.io.parse_url(path): a location, or None
parse_url(p) == IF p \in ValidPaths THEN <<"zarr", p>> ELSE None

\* a path or URL (a str the model never looks into)
PathStr(p) == <<"path", p>>

\* what the host passes: a path, or a non-empty list of paths
PathInputs ==
    {PathStr(p) : p \in PathNames}
        \cup {List(l) : l \in UNION {[1..n -> PathNames] : n \in 1..MaxPaths}}

Chars(s) == [i \in 1..Len(s) |-> Str(<<s[i]>>)]

Affine6 == Mat([i \in 1..AffineSize |-> [j \in 1..AffineSize |-> 10 * i + j]])

Red == Str(<<"r", "e", "d">>)
Bogus == Str(<<"x">>)
Stops == List(<<List(<<Num(0), Num(0), Num(0)>>), List(<<Num(1), Num(0), Num(0)>>)>>)

DataOpts ==
    { None,
      List(<<>>),
      List(<<Array(<<1, 1, 1, 2, 2>>)>>),
      List(<<Array(<<1, 2, 1, 2, 2>>), Array(<<1, 2, 1, 1, 1>>)>>),
      List(<<Array(<<1, 0, 1, 2, 2>>)>>),
      List(<<Array(<<2, 3, 3>>)>>),
      List(<<Array(<<3>>)>>) }

AxesOpts ==
    { Absent,
      List(Chars(<<"t", "z", "y", "x">>)),
      List(Chars(<<"c", "y", "x">>)),
      List(Chars(<<"t", "c", "z", "y", "x">>)),
      List(Chars(<<"t", "z", "y", "x", "c">>)) }

ColormapOpts ==
    { Absent,
      List(<<>>),
      List(<<Red>>),
      List(<<Cm(Red)>>),
      List(<<Stops>>),
      List(<<Red, Cm(Stops)>>),
      List(<<Red, Bogus>>) }

\* an object's per-object mapping: the keys of ks, each with its own value
ObjProps(id, ks) ==
    [key \in ks |-> Num(10 * id + (CASE key = "x" -> 1 [] key = "y" -> 2 [] OTHER -> 3))]

PropKeys == {"x", "y", "index"}

\* the properties tables of at most n objects, in every order of the ids
PropsTables(n) ==
    UNION { { OrderedDict([i \in 1..m |-> [id |-> Num(ids[i]), props |-> ObjProps(ids[i], ks[i])]]) :
                ids \in {f \in [1..m -> 1..n] : \A i, j \in 1..m : i /= j => f[i] /= f[j]},
                ks \in [1..m -> SUBSET PropKeys] } : m \in 0..n }

AllKeys == MetadataKeySet \cup {"axes", "properties"}

\* a node's metadata mapping, holding the keys whose value is not Absent
MkMetadata(name, visible, limits, colormap, metadata, affine, blending, axes, properties) ==
    LET full == [x \in AllKeys |->
                    CASE x = "name" -> name
                      [] x = "visible" -> visible
                      [] x = "contrast_limits" -> limits
                      [] x = "colormap" -> colormap
                      [] x = "metadata" -> metadata
                      [] x = "affine" -> affine
                      [] x = "blending" -> blending
                      [] x = "axes" -> axes
                      [] OTHER -> properties]
    IN  [x \in {y \in AllKeys : Kind(full[y]) /= "absent"} |-> full[x]]

SmallProps ==
    OrderedDict(<<[id |-> Num(1), props |-> ObjProps(1, {"x", "y"})],
                  [id |-> Num(2), props |-> ObjProps(2, {"x"})]>>)

\* the nodes the per-node claims are checked on
AllNodes ==
    { [data |-> data, label |-> label,
       metadata |-> MkMetadata(name, visible, contrast_limits, colormap,
                               metadata, affine, blending, axes, properties)] :
        data \in DataOpts, label \in BOOLEAN,
        name \in {Absent, List(<<Str(<<"a", "b">>)>>)},
        visible \in {Absent, Bool(TRUE)},
        contrast_limits \in {Absent, List(<<List(<<Num(0), Num(1)>>)>>)},
        colormap \in ColormapOpts,
        metadata \in {Absent, Dict(EmptyDict)},
        affine \in {Absent, Affine6},
        blending \in {Absent, Str(<<"o", "n">>)},
        axes \in AxesOpts,
        properties \in {Absent, SmallProps} }

Node(data, label, metadata) == [data |-> data, label |-> label, metadata |-> metadata]

\* the nodes of the upstream sequences of the reader's flow
FlowNodes ==
    { Node(None, FALSE, EmptyDict),
      Node(List(<<>>), TRUE, MkMetadata(Absent, Absent, Absent, Absent, Absent,
                                        Affine6, Absent, Absent, Absent)),
      Node(List(<<Array(<<1, 2, 1, 2, 2>>)>>), FALSE,
           MkMetadata(List(<<Str(<<"a">>), Str(<<"b">>)>>), Absent, Absent,
                      List(<<Red, Stops>>), Absent, Affine6, Absent, Absent, Absent)),
      Node(List(<<Array(<<1, 1, 1, 2, 2>>)>>), FALSE,
           MkMetadata(List(<<Str(<<"a">>)>>), Bool(TRUE), Absent, Absent, Absent,
                      Absent, Absent, Absent, Absent)),
      Node(List(<<Array(<<1, 1, 1, 2, 2>>)>>), TRUE,
           MkMetadata(Absent, Absent, Absent, Absent, Absent, Affine6, Absent,
                      Absent, SmallProps)),
      Node(List(<<Array(<<1, 1, 1, 2, 2>>)>>), TRUE, EmptyDict) }

\* the nodes the properties claims are checked on
PropsNodes ==
    { Node(List(<<Array(<<1, 1, 2, 2>>)>>), label,
           MkMetadata(Absent, Absent, Absent, Absent, Absent, Absent, Absent,
                      Absent, properties)) :
        label \in BOOLEAN, properties \in {Absent} \cup PropsTables(MaxObjs) }

SeqsUpTo(S, n) == UNION {[1..m -> S] : m \in 0..n}

----------------------------------------------------------------------------
(* State *)

VARIABLES
    path,       \* what the host passes napari_get_reader
    pc,         \* where the host is: "start", "ignored", "ready" (it holds f),
                \* "running" (in f), "returned", "raised"
    parsed,     \* the arguments of the calls of parse_url, in order
    warned,     \* the number of warnings issued
    opened,     \* the locations Reader was built on
    nodes,      \* the node objects of the upstream sequence, as they are now
    nodes0,     \* the node objects as they were built
    pos,        \* how many nodes the iterator has yielded
    start,      \* pos when the running invocation of f began
    results,    \* the list results of the running invocation of f
    calls,      \* the number of invocations of f
    pulls,      \* per node, how often it was yielded and transformed
    outcome,    \* per node, what its last transformation ended with
    err         \* the exception the last invocation of f raised, or "none"

vars ==
    <<path, pc, parsed, warned, opened, nodes, nodes0, pos, start, results,
      calls, pulls, outcome, err>>

InitWith(paths, seqs) ==
    /\ path \in paths
    /\ nodes0 \in seqs
    /\ nodes = nodes0
    /\ pc = "start"
    /\ parsed = <<>>
    /\ warned = 0
    /\ opened = <<>>
    /\ pos = 0
    /\ start = 0
    /\ results = <<>>
    /\ calls = 0
    /\ pulls = [i \in 1..Len(nodes0) |-> 0]
    /\ outcome = [i \in 1..Len(nodes0) |-> "none"]
    /\ err = "none"

Init == InitWith(PathInputs, SeqsUpTo(FlowNodes, MaxNodes))

InitNode == InitWith({PathStr("p1")}, {<<n>> : n \in AllNodes})

InitProps == InitWith({PathStr("p1")}, {<<n>> : n \in PropsNodes})

----------------------------------------------------------------------------
(* napari_get_reader *)

\* lines 39-42: the path that is resolved
SelectPath_Last(p) == IF Kind(p) = "list" THEN Val(p)[Len(Val(p))] ELSE Val(p)

SelectPath(p) == IF Kind(p) = "list" THEN Val(p)[1] ELSE Val(p)

\* lines 39-41: whether the warning is issued
Warns(p) == Kind(p) = "list" /\ Len(Val(p)) > 1

\* lines 34-48; transform(reader()) builds f and pulls no node
GetReader ==
    /\ pc = "start"
    /\ LET zarr == parse_url(SelectPath(path))
       IN  /\ parsed' = Append(parsed, SelectPath(path))
           /\ warned' = IF Warns(path) THEN warned + 1 ELSE warned
           /\ IF zarr /= None
              THEN /\ opened' = Append(opened, zarr)
                   /\ pc' = "ready"
              ELSE /\ opened' = opened
                   /\ pc' = "ignored"
    /\ UNCHANGED <<path, nodes, nodes0, pos, start, results, calls, pulls,
                   outcome, err>>

----------------------------------------------------------------------------
(* The reader function f *)

\* `for node in nodes` on an iterator: iteration goes on where it stopped
IterStart_Restart(p) == 0

IterStart(p) == p

\* line 87: the host invokes f
Invoke ==
    /\ pc \in {"ready", "returned", "raised"}
    /\ calls < MaxInvocations
    /\ pc' = "running"
    /\ calls' = calls + 1
    /\ results' = <<>>
    /\ pos' = IterStart(pos)
    /\ start' = IterStart(pos)
    /\ err' = "none"
    /\ UNCHANGED <<path, parsed, warned, opened, nodes, nodes0, pulls, outcome>>

\* lines 89-158: one iteration of the loop
Step ==
    /\ pc = "running"
    /\ pos < Len(nodes)
    /\ LET i == pos + 1
           r == TransformNode(nodes[i])
       IN  /\ pos' = i
           /\ pulls' = [pulls EXCEPT ![i] = @ + 1]
           /\ outcome' = [outcome EXCEPT ![i] = r.status]
           /\ nodes' = [nodes EXCEPT ![i] = r.node]
           /\ results' = IF r.status = "ok" THEN Append(results, r.rec)
                         ELSE IF r.status = "skip" THEN results
                         ELSE <<>>
           /\ pc' = IF r.status = "raise" THEN "raised" ELSE "running"
           /\ err' = r.err
    /\ UNCHANGED <<path, parsed, warned, opened, nodes0, start, calls>>

\* line 160: the iterator is exhausted and f returns results
Return ==
    /\ pc = "running"
    /\ pos = Len(nodes)
    /\ pc' = "returned"
    /\ UNCHANGED <<path, parsed, warned, opened, nodes, nodes0, pos, start,
                   results, calls, pulls, outcome, err>>

Next == GetReader \/ Invoke \/ Step \/ Return

Spec == Init /\ [][Next]_vars

SpecNode == InitNode /\ [][Next]_vars

SpecProps == InitProps /\ [][Next]_vars

----------------------------------------------------------------------------
(* Claims about the reader's flow, checked under Spec *)

\* a node whose data is absent or empty
NoData(n) == Kind(n.data) = "none" \/ Len(Val(n.data)) = 0

\* the positions after from, up to to, of the nodes with data, in order
RECURSIVE DataPositions(_, _)
DataPositions(from, to) ==
    IF from >= to THEN <<>>
    ELSE (IF NoData(nodes0[from + 1]) THEN <<>> ELSE <<from + 1>>)
            \o DataPositions(from + 1, to)

\* rec is a record made from node n: its layer kind is n's, and its data
\* are n's arrays, each as it is or without its second dimension
RecordFrom(rec, n) ==
    /\ rec.layer_type = (IF n.label THEN "labels" ELSE "image")
    /\ Kind(rec.data) = "list"
    /\ Len(Val(rec.data)) = Len(Val(n.data))
    /\ \A j \in 1..Len(Val(n.data)) :
          \/ Val(rec.data)[j] = Val(n.data)[j]
          \/ Val(Val(rec.data)[j]) = DropAt(Val(Val(n.data)[j]), 1)

\* C1: the list an invocation of f returns holds exactly one record per node
\* with data that the invocation was given, in the order of the nodes, and
\* none for a node whose data is absent or empty; the first invocation is
\* given the whole sequence; a node without data is skipped, never raising.
C1_Theorem ==
    /\ (calls = 1 => start = 0)
    /\ (pc = "returned" =>
          /\ pos = Len(nodes0)
          /\ LET at == DataPositions(start, pos)
             IN  /\ Len(results) = Len(at)
                 /\ \A j \in 1..Len(at) : RecordFrom(results[j], nodes0[at[j]]))
    /\ \A i \in 1..Len(nodes0) :
          NoData(nodes0[i]) => outcome[i] \in {"none", "skip"}

\* the first invocation has returned one record for two nodes, the first of
\* which has no data
C1_Witness ==
    /\ pc = "returned"
    /\ calls = 1
    /\ Len(nodes0) = 2
    /\ NoData(nodes0[1])
    /\ ~NoData(nodes0[2])
    /\ Len(results) = 1
    /\ outcome = <<"skip", "ok">>

\* C7: given a list of paths, parse_url is called exactly once, with the
\* first entry; a warning is issued if and only if the list has more than
\* one entry; no other entry reaches parse_url or Reader.
C7_Theorem ==
    (pc /= "start" /\ Kind(path) = "list") =>
        /\ parsed = <<Val(path)[1]>>
        /\ warned = (IF Len(Val(path)) > 1 THEN 1 ELSE 0)
        /\ \A i \in 1..Len(opened) : Val(opened[i]) = Val(path)[1]
        /\ Len(opened) <= 1

\* a list of two different paths was given: one warning, one call with the
\* first path, whose hierarchy Reader was built on
C7_Witness ==
    /\ pc = "ready"
    /\ Kind(path) = "list"
    /\ Len(Val(path)) = 2
    /\ Val(path)[1] /= Val(path)[2]
    /\ Val(path)[2] \in ValidPaths
    /\ warned = 1
    /\ parsed = <<Val(path)[1]>>
    /\ Len(opened) = 1

\* C8 as stated: once transform has returned f to the host, no node is
\* pulled from the upstream sequence.
C8_Original ==
    [][(pc \in {"ready", "running", "returned", "raised"}) => (pos' = pos)]_vars

\* C8, amended: transform pulls no node; an invocation of f that returns
\* has pulled the whole sequence, so that none is left to pull after it;
\* over all invocations of f no node is pulled or transformed twice.
C8_Theorem ==
    /\ (calls = 0 => pos = 0)
    /\ (pc = "returned" => pos = Len(nodes0))
    /\ \A i \in 1..Len(nodes0) : pulls[i] = (IF i <= pos THEN 1 ELSE 0)

\* f was invoked twice and returned both times: each of the two nodes was
\* pulled once, and the second invocation returned the empty list
C8_Witness ==
    /\ pc = "returned"
    /\ calls = 2
    /\ start = 2
    /\ Len(nodes0) = 2
    /\ \A i \in 1..2 : pulls[i] = 1 /\ outcome[i] = "ok"
    /\ results = <<>>

----------------------------------------------------------------------------
(* Claims about one node, checked under SpecNode and SpecProps, whose       *)
(* upstream sequence is a single node                                       *)

\* the node has been through the loop of f
Processed == Len(nodes0) = 1 /\ pulls[1] = 1

\* the record of the node is in results
Emitted == Processed /\ outcome[1] = "ok" /\ Len(results) = 1

ImageNode(n) == ~NoData(n) /\ ~n.label

Label5D(n) == ~NoData(n) /\ n.label /\ Len(Val(Val(n.data)[1])) = 5

HasC(axes) == \E p \in 1..Len(Val(axes)) : Val(axes)[p] = Str(<<"c">>)

\* the 0-based position of the first "c" of axes
FirstC(axes) ==
    CHOOSE k \in 0..(Len(Val(axes)) - 1) :
        /\ Val(axes)[k + 1] = Str(<<"c">>)
        /\ \A p \in 1..k : Val(axes)[p] /= Str(<<"c">>)

\* the matrix m without its row and column at the 0-based position k
Minor(m, k) ==
    Mat([i \in 1..(Len(Val(m)) - 1) |->
           [j \in 1..(Len(Val(m)) - 1) |->
               Val(m)[IF i <= k THEN i ELSE i + 1][IF j <= k THEN j ELSE j + 1]]])

\* C2: a label node whose first array has 5 dimensions gives a "labels"
\* record whose arrays have lost their second dimension and whose affine is
\* the node's without row 1 and column 1; without an affine the record is
\* emitted all the same, with no affine key, and nothing is raised.
C2_Claim ==
    (Processed /\ Label5D(nodes0[1])) =>
        LET n == nodes0[1]
        IN  /\ "affine" \notin DOMAIN n.metadata => outcome[1] = "ok"
            /\ Emitted =>
                 /\ results[1].layer_type = "labels"
                 /\ \A j \in 1..Len(Val(n.data)) :
                       Val(Val(results[1].data)[j]) = DropAt(Val(Val(n.data)[j]), 1)
                 /\ IF "affine" \in DOMAIN n.metadata
                    THEN results[1].metadata["affine"] = Minor(n.metadata["affine"], 1)
                    ELSE "affine" \notin DOMAIN results[1].metadata

\* C3 as stated: channel_axis of an image node's record is the position of
\* "c" in axes; absent when axes has no "c"; and without axes it is
\* CHANNEL_DIMENSION unless the size there is 1.
C3_Original ==
    (Emitted /\ ImageNode(nodes0[1])) =>
        LET md == nodes0[1].metadata
            out == results[1].metadata
            shape == Val(Val(nodes0[1].data)[1])
        IN  IF "axes" \in DOMAIN md
            THEN IF HasC(md["axes"])
                 THEN /\ "channel_axis" \in DOMAIN out
                      /\ out["channel_axis"] = Num(FirstC(md["axes"]))
                 ELSE "channel_axis" \notin DOMAIN out
            ELSE IF shape[CHANNEL_DIMENSION + 1] = 1
                 THEN "channel_axis" \notin DOMAIN out
                 ELSE /\ "channel_axis" \in DOMAIN out
                      /\ out["channel_axis"] = Num(CHANNEL_DIMENSION)

\* C3, amended: the same, but without axes channel_axis is CHANNEL_DIMENSION
\* exactly when the size there is greater than 1, and absent when it is
\* 1 or 0.
C3_Theorem ==
    (Emitted /\ ImageNode(nodes0[1])) =>
        LET md == nodes0[1].metadata
            out == results[1].metadata
            shape == Val(Val(nodes0[1].data)[1])
        IN  IF "axes" \in DOMAIN md
            THEN IF HasC(md["axes"])
                 THEN /\ "channel_axis" \in DOMAIN out
                      /\ out["channel_axis"] = Num(FirstC(md["axes"]))
                 ELSE "channel_axis" \notin DOMAIN out
            ELSE IF shape[CHANNEL_DIMENSION + 1] > 1
                 THEN /\ "channel_axis" \in DOMAIN out
                      /\ out["channel_axis"] = Num(CHANNEL_DIMENSION)
                 ELSE "channel_axis" \notin DOMAIN out

\* an image node without axes whose size at CHANNEL_DIMENSION is 0 gave a
\* record without channel_axis
C3_Witness ==
    /\ Emitted
    /\ ImageNode(nodes0[1])
    /\ "axes" \notin DOMAIN nodes0[1].metadata
    /\ Val(Val(nodes0[1].data)[1])[CHANNEL_DIMENSION + 1] = 0
    /\ "channel_axis" \notin DOMAIN results[1].metadata

\* C4: the record of an image node with a channel axis k holds every
\* display key of the node, its value not indexed: the node's value as it
\* is, the colormap being the node's own list (its entries realized in
\* place), and the affine the node's 6x6 matrix without row k and column k;
\* without an affine in the node there is none in the record.
C4_Theorem ==
    (Emitted /\ ImageNode(nodes0[1])
        /\ "channel_axis" \in DOMAIN results[1].metadata) =>
        LET md == nodes0[1].metadata
            out == results[1].metadata
            k == Val(out["channel_axis"])
        IN  /\ \A x \in {"name", "visible", "contrast_limits", "metadata",
                         "blending"} \cap DOMAIN md :
                  x \in DOMAIN out /\ out[x] = md[x]
            /\ "colormap" \in DOMAIN md =>
                  /\ "colormap" \in DOMAIN out
                  /\ out["colormap"] = nodes[1].metadata["colormap"]
                  /\ Kind(out["colormap"]) = "list"
                  /\ Len(Val(out["colormap"])) = Len(Val(md["colormap"]))
                  /\ \A j \in 1..Len(Val(md["colormap"])) :
                        \/ Val(out["colormap"])[j] = Val(md["colormap"])[j]
                        \/ Val(out["colormap"])[j] = Cm(Val(md["colormap"])[j])
            /\ IF "affine" \in DOMAIN md
               THEN /\ "affine" \in DOMAIN out
                    /\ Len(Val(out["affine"])) = 5
                    /\ out["affine"] = Minor(md["affine"], k)
               ELSE "affine" \notin DOMAIN out

\* an image node with "c" last of five axes, a name and an affine gave a
\* record with channel_axis 4 and the 5x5 affine
C4_Witness ==
    /\ Emitted
    /\ ImageNode(nodes0[1])
    /\ "channel_axis" \in DOMAIN results[1].metadata
    /\ results[1].metadata["channel_axis"] = Num(4)
    /\ "name" \in DOMAIN nodes0[1].metadata
    /\ "affine" \in DOMAIN nodes0[1].metadata
    /\ results[1].metadata["affine"] = Minor(nodes0[1].metadata["affine"], 4)

\* an image node for which no channel axis is detected
SingleChannel(n) ==
    /\ ImageNode(n)
    /\ IF "axes" \in DOMAIN n.metadata THEN ~HasC(n.metadata["axes"])
       ELSE /\ Len(Val(Val(n.data)[1])) > CHANNEL_DIMENSION
            /\ Val(Val(n.data)[1])[CHANNEL_DIMENSION + 1] <= 1

\* x[0] fails on the value v
Unindexable(v) ==
    \/ Kind(v) \notin {"list", "str", "mat"}
    \/ Len(Val(v)) = 0

\* C6: the record of an image node without a channel axis holds, for every
\* display key of the node, element [0] of the node's value; a key whose
\* value cannot be indexed is left out, and the record is emitted all the
\* same, with the other keys.
C6_Claim ==
    (Processed /\ SingleChannel(nodes0[1])) =>
        LET md == nodes0[1].metadata
            present == MetadataKeySet \cap DOMAIN md
        IN  /\ (\E x \in present : Unindexable(md[x])) => outcome[1] = "ok"
            /\ Emitted =>
                 \A x \in present :
                    IF Unindexable(md[x]) THEN x \notin DOMAIN results[1].metadata
                    ELSE /\ x \in DOMAIN results[1].metadata
                         /\ x /= "colormap" =>
                               results[1].metadata[x] = Index0(md[x]).res

\* C9: transforming a node leaves the node as it was: its data and every
\* value of its metadata, the entries of its colormap list included.
C9_Claim == nodes = nodes0

\* a list all of whose entries are realized Colormap objects
AllRealized(v) ==
    /\ Kind(v) = "list"
    /\ \A j \in 1..Len(Val(v)) : Kind(Val(v)[j]) = "cm"

\* C10: the normalization of a colormap list whose entries are all realized
\* replaces no entry and leaves the list as it is: the list of a node that
\* arrives realized stays as it is, in the node and in its record, and the
\* list of a record, which f has normalized, is left as it is by a second
\* normalization.
C10_Theorem ==
    /\ \A i \in 1..Len(nodes0) :
          ("colormap" \in DOMAIN nodes0[i].metadata
              /\ AllRealized(nodes0[i].metadata["colormap"])) =>
            LET cms == nodes0[i].metadata["colormap"]
                once == NormalizeColormap(cms)
            IN  /\ once.ok /\ once.replaced = 0 /\ once.res = cms
                /\ nodes[i].metadata["colormap"] = cms
    /\ (Emitted /\ "colormap" \in DOMAIN results[1].metadata
            /\ Kind(results[1].metadata["colormap"]) = "list") =>
            LET cms == results[1].metadata["colormap"]
                twice == NormalizeColormap(cms)
            IN  /\ AllRealized(cms)
                /\ twice.ok /\ twice.replaced = 0 /\ twice.res = cms
                /\ (AllRealized(nodes0[1].metadata["colormap"])
                      => cms = nodes0[1].metadata["colormap"])

\* a node whose non-empty colormap list came realized gave a record with
\* that same list
C10_Witness ==
    /\ Emitted
    /\ "colormap" \in DOMAIN results[1].metadata
    /\ Kind(results[1].metadata["colormap"]) = "list"
    /\ Len(Val(results[1].metadata["colormap"])) > 0
    /\ AllRealized(nodes0[1].metadata["colormap"])
    /\ results[1].metadata["colormap"] = nodes0[1].metadata["colormap"]

\* C5: the properties of a record are the node's table by columns: "index"
\* is the object identifiers in their order, every key of any object is a
\* column, every column is as long as there are objects, with None where an
\* object lacks the key; a node without properties gives none.
C5_Claim ==
    Emitted =>
        LET md == nodes0[1].metadata
            out == results[1].metadata
        IN  IF "properties" \notin DOMAIN md
            THEN "properties" \notin DOMAIN out
            ELSE LET items == Val(md["properties"])
                     cols == Val(out["properties"])
                 IN  /\ cols["index"] = [i \in 1..Len(items) |-> items[i].id]
                     /\ \A i \in 1..Len(items) : DOMAIN items[i].props \subseteq DOMAIN cols
                     /\ \A key \in DOMAIN cols : Len(cols[key]) = Len(items)
                     /\ \A key \in DOMAIN cols \ {"index"} :
                           \A i \in 1..Len(items) :
                              cols[key][i] = IF key \in DOMAIN items[i].props
                                             THEN items[i].props[key] ELSE None

============================================================================
